---- MODULE Spec2Model ----
(***************************************************************************)
(* Task concurrency and queuing subsystem of ginzlabs/tg-ai-agent:         *)
(*   - backend/services/task_manager.py  (category-concurrency manager)    *)
(*   - bot/services/task_manager.py      (per-user single-flight manager)  *)
(*   - backend/api/endpoints.py + bot/api/endpoints.py (webhook rendezvous)*)
(* Every action is one run of a coroutine between two suspension points   *)
(* of the asyncio event loop; the loop interleaves ready steps.            *)
(***************************************************************************)
EXTENDS Integers, Sequences, FiniteSets, TLC

\* ------------------------------------------------------------------ bounds
MaxTasks == 3            \* Task objects ever created by add_task
MaxCancelWaiters == 1    \* cancel_task calls suspended on one asyncio task
MaxLimit == 2            \* largest configured limit of the loaded category
MaxCalls == 4            \* queue_task calls made to the per-user manager
MaxWebhooks == 2         \* webhook requests received for the record
MaxClock == 10           \* minutes the clock runs
MaxSweptTasks == 2       \* Task objects created while the clock runs
MaxScopeCalls == 3       \* queue_task calls made when two users are served
MaxRequests == 3         \* user requests that show a placeholder

\* ------------------------------------------------------- program constants
None == "None"
NoPosition == 0          \* queue_position = None
NoTask == 0
NoTime == -1              \* self.tasks.get(id) is None

TaskType == {"transcription", "report", "default"}
TaskTypeOrder == <<"transcription", "report", "default">>
\* config.TASK_CONCURRENCY_LIMITS.  The limits are configuration inputs: the
\* limit of the category the model loads ranges over 1..MaxLimit (the
\* repository's config.py sets it to 2), the other two keep config.py's values.
LoadedType == "transcription"
TranscriptionLimit == 2
ReportLimit == 3
DefaultLimit == 5
TASK_RETENTION_MINUTES == 5   \* config.py
CleanupSleepMinutes == 5      \* asyncio.sleep(300) in _cleanup_old_tasks
TASK_CONCURRENCY_LIMITS(n) == [transcription |-> n, report |-> ReportLimit,
                               default |-> DefaultLimit]

\* categories the modelled callers submit to
SubmittedTypes == {LoadedType}

Objs == 1..MaxTasks
TaskIds == 1..MaxTasks
Results == {"res", None}           \* what a work function may return

VARIABLES
  task,            \* Task objects: obj -> fields (status "none" = not created)
  nTasks,          \* number of Task objects created so far
  tasks,           \* TaskManager.tasks: task_id -> obj (NoTask = absent)
  task_queues,     \* TaskManager.task_queues: type -> sequence of task ids
  running_tasks,   \* TaskManager.running_tasks: type -> set of task ids
  waiters,         \* obj -> number of cancel_task calls awaiting task.task
  completion,      \* obj -> state of the _handle_task_completion task
  processor,       \* TRUE once _queue_processor_task has been created
  concurrency_limits, \* TaskManager.concurrency_limits: type -> limit
  now,             \* the clock, datetime.now(UTC), in minutes
  cleanup_wake     \* time at which _cleanup_old_tasks runs next (NoTime = no such task)

tvars == <<now, cleanup_wake>>

bvars == <<task, nTasks, tasks, task_queues, running_tasks, waiters,
           completion, processor, concurrency_limits, tvars>>

\* per-user manager (bot/services/task_manager.py)
VARIABLES
  ENABLE_TASK_QUEUING,  \* config.ENABLE_TASK_QUEUING
  call,                 \* queue_task call -> its wrapped task (st "none" = not made)
  nCalls,               \* number of queue_task calls made so far
  user_task_queues,     \* user -> deque of waiting wrapped tasks
  queue_keys,           \* the keys present in the defaultdict user_task_queues
  user_running_tasks,   \* user -> call whose asyncio task is stored (NoCall = no key)
  user_cancel_messages, \* user -> TRUE when a cancel prompt is stored
  uwaiters              \* call -> number of cancel_user_task calls awaiting its task

uvars == <<ENABLE_TASK_QUEUING, call, nCalls, user_task_queues, queue_keys,
           user_running_tasks, user_cancel_messages, uwaiters>>

\* webhook rendezvous for one STT record R
VARIABLES
  rec_status,         \* stt_files.status of R
  delivered_to_user,  \* stt_files.delivered_to_user of R
  wh,                 \* webhook request -> state of its handler
  nWebhooks,          \* number of webhook requests received so far
  transport_sends,    \* transcript messages the chat transport has sent for R
  notices,            \* failure notices the chat transport has sent
  agent_posts         \* posts of the transcript to /process_message

wvars == <<rec_status, delivered_to_user, wh, nWebhooks, transport_sends,
           notices, agent_posts>>

\* shutdown: the cancel_all_tasks coroutine of each manager
VARIABLES
  cancel_all,   \* TaskManager.cancel_all_tasks: where the call stands
  ucancel_all   \* cancel_all_tasks of the per-user manager: where the call stands

svars == <<cancel_all, ucancel_all>>

\* the "processing" placeholder messages of the bot (bot/services/user_service.py)
VARIABLES
  requests      \* queue_task call -> the user request that made it and its placeholder

pvars == <<requests>>

vars == <<bvars, uvars, wvars, svars, pvars>>

\* ----------------------------------------------------------- Task object
NewTask(task_id, task_type) ==
  [task_id |-> task_id, status |-> "queued", task_type |-> task_type,
   result |-> None, error |-> None, queue_position |-> NoPosition,
   started_at |-> FALSE, completed_at |-> NoTime,
   aio |-> "none", must_cancel |-> FALSE]

NoObject ==
  [task_id |-> 0, status |-> "none", task_type |-> "none",
   result |-> None, error |-> None, queue_position |-> NoPosition,
   started_at |-> FALSE, completed_at |-> NoTime,
   aio |-> "none", must_cancel |-> FALSE]

\* The manager's mutable state as one value, so that the helper methods
\* can be written as functions from state to state.
Mgr == [task |-> task, tasks |-> tasks, task_queues |-> task_queues,
        running_tasks |-> running_tasks, concurrency_limits |-> concurrency_limits]

\* TaskManager.__init__ with config.TASK_CONCURRENCY_LIMITS = limits
BInitWith(limits) ==
  /\ task = [o \in Objs |-> NoObject]
  /\ nTasks = 0
  /\ tasks = [i \in TaskIds |-> NoTask]
  /\ task_queues = [tt \in TaskType |-> <<>>]
  /\ running_tasks = [tt \in TaskType |-> {}]
  /\ waiters = [o \in Objs |-> 0]
  /\ completion = [o \in Objs |-> "none"]
  /\ processor = FALSE
  /\ now = 0
  /\ cleanup_wake = NoTime
  /\ concurrency_limits = [tt \in TaskType |-> limits[tt]]

BInit(n) == BInitWith(TASK_CONCURRENCY_LIMITS(n))

\* mutant of StartTask: the id is put into every category's running set
StartTask_AllCategories(M, o) ==
  [M EXCEPT !.task[o].status = "pending",
            !.task[o].aio = "scheduled",
            !.running_tasks = [tt \in TaskType |-> @[tt] \cup {M.task[o].task_id}]]

\* _start_task: status PENDING, id into the running set, asyncio task
\* created (its first step is scheduled, not yet run).
StartTask(M, o) ==
  [M EXCEPT !.task[o].status = "pending",
            !.task[o].aio = "scheduled",
            !.running_tasks[M.task[o].task_type] = @ \cup {M.task[o].task_id}]

\* mutant of RenumberQueue: the positions are left as they were
RenumberQueue_Stale(M, tt) == M

\* for i, queued_id in enumerate(queue): tasks.get(queued_id).queue_position = i + 1
RenumberQueue(M, tt) ==
  LET q == M.task_queues[tt]
      Idx(o) == {i \in 1..Len(q) : M.tasks[q[i]] = o}
      Last(S) == CHOOSE i \in S : \A j \in S : j <= i
  IN [M EXCEPT !.task = [o \in Objs |->
        IF Idx(o) # {} THEN [M.task[o] EXCEPT !.queue_position = Last(Idx(o))]
        ELSE M.task[o]]]

\* mutant of ProcessQueueForType: takes the tail of the queue, not its head
ProcessQueueForType_Lifo(M, tt) ==
  IF M.task_queues[tt] = <<>> THEN M
  ELSE LET q == M.task_queues[tt]
           next_task_id == q[Len(q)]
           o == M.tasks[next_task_id]
           M1 == [M EXCEPT !.task_queues[tt] = SubSeq(q, 1, Len(q) - 1)]
       IN IF o # NoTask /\ M.task[o].status = "queued"
          THEN StartTask(RenumberQueue(M1, tt), o)
          ELSE M1

\* _process_queue_for_type, lines 132-146
ProcessQueueForType(M, tt) ==
  IF M.task_queues[tt] = <<>> THEN M
  ELSE LET next_task_id == Head(M.task_queues[tt])
           o == M.tasks[next_task_id]
           M1 == [M EXCEPT !.task_queues[tt] = Tail(@)]
       IN IF o # NoTask /\ M.task[o].status = "queued"
          THEN StartTask(RenumberQueue(M1, tt), o)
          ELSE M1

SetMgr(M) ==
  /\ task' = M.task
  /\ tasks' = M.tasks
  /\ task_queues' = M.task_queues
  /\ running_tasks' = M.running_tasks

\* mutant of AddTaskTo: the admission test is "<=" instead of "<"
AddTaskTo_OffByOne(M, o, task_id, tt) ==
  LET M1 == [M EXCEPT !.task[o] = NewTask(task_id, tt), !.tasks[task_id] = o]
  IN IF Cardinality(M1.running_tasks[tt]) <= M1.concurrency_limits[tt]
     THEN StartTask(M1, o)
     ELSE LET M2 == [M1 EXCEPT !.task_queues[tt] = Append(@, task_id)]
          IN [M2 EXCEPT !.task[o].queue_position = Len(M2.task_queues[tt])]

\* mutant of AddTaskTo: a task that has to wait is put at the head of the queue
AddTaskTo_Prepend(M, o, task_id, tt) ==
  LET M1 == [M EXCEPT !.task[o] = NewTask(task_id, tt), !.tasks[task_id] = o]
  IN IF Cardinality(M1.running_tasks[tt]) < M1.concurrency_limits[tt]
     THEN StartTask(M1, o)
     ELSE LET M2 == [M1 EXCEPT !.task_queues[tt] = <<task_id>> \o @]
          IN [M2 EXCEPT !.task[o].queue_position = Len(M2.task_queues[tt])]

\* add_task, lines 95-106 (the task id is generated, hence fresh)
AddTaskTo(M, o, task_id, tt) ==
  LET M1 == [M EXCEPT !.task[o] = NewTask(task_id, tt), !.tasks[task_id] = o]
  IN IF Cardinality(M1.running_tasks[tt]) < M1.concurrency_limits[tt]
     THEN StartTask(M1, o)
     ELSE LET M2 == [M1 EXCEPT !.task_queues[tt] = Append(@, task_id)]
          IN [M2 EXCEPT !.task[o].queue_position = Len(M2.task_queues[tt])]

add_task(tt) ==
  /\ nTasks < MaxTasks
  /\ LET o == nTasks + 1 IN SetMgr(AddTaskTo(Mgr, o, o, tt))
  /\ nTasks' = nTasks + 1
  /\ cleanup_wake' = IF cleanup_wake = NoTime THEN now ELSE cleanup_wake
  /\ processor' = TRUE
  /\ UNCHANGED <<waiters, completion, concurrency_limits, now>>
  /\ UNCHANGED <<svars, pvars, uvars, wvars>>

\* Task.run, first step: runs up to "await self._coroutine()".
TaskRunStart(o) ==
  /\ task[o].aio = "scheduled"
  /\ ~task[o].must_cancel
  /\ task' = [task EXCEPT ![o].status = "running", ![o].started_at = TRUE,
                          ![o].aio = "running"]
  /\ UNCHANGED <<nTasks, tasks, task_queues, running_tasks, waiters,
                 completion, processor, concurrency_limits>>
  /\ UNCHANGED <<tvars, svars, pvars, uvars, wvars>>

\* Task.run, the work function returns r: result, COMPLETED, completed_at.
\* The asyncio task is done and its done-callback creates the
\* _handle_task_completion task.
RunReturn(t, r) ==
  [t EXCEPT !.result = r, !.status = "completed", !.completed_at = now,
            !.aio = "done"]

WorkReturns(o, r) ==
  /\ task[o].aio = "running"
  /\ ~task[o].must_cancel
  /\ task' = [task EXCEPT ![o] = RunReturn(@, r)]
  /\ completion' = [completion EXCEPT ![o] = "ready"]
  /\ UNCHANGED <<nTasks, tasks, task_queues, running_tasks, waiters, processor,
                 concurrency_limits>>
  /\ UNCHANGED <<tvars, svars, pvars, uvars, wvars>>

\* mutant of RunRaise: the exception is recorded but the status is not set
RunRaise_KeepsRunning(t) ==
  [t EXCEPT !.error = "exc", !.completed_at = now, !.aio = "done"]

\* Task.run, the work function raises an Exception: error = str(e), FAILED.
RunRaise(t) ==
  [t EXCEPT !.error = "exc", !.status = "failed", !.completed_at = now,
            !.aio = "done"]

WorkRaises(o) ==
  /\ task[o].aio = "running"
  /\ ~task[o].must_cancel
  /\ task' = [task EXCEPT ![o] = RunRaise(@)]
  /\ completion' = [completion EXCEPT ![o] = "ready"]
  /\ UNCHANGED <<nTasks, tasks, task_queues, running_tasks, waiters, processor,
                 concurrency_limits>>
  /\ UNCHANGED <<tvars, svars, pvars, uvars, wvars>>

\* The asyncio task receives CancelledError.  Before its first step the
\* body of Task.run is never entered; inside the work function the error
\* passes "except Exception" and only the finally clause runs.
RunCancelled(t) ==
  [t EXCEPT !.completed_at = IF t.aio = "running" THEN now ELSE @,
            !.aio = "cancelled"]

TaskCancelled(o) ==
  /\ task[o].aio \in {"scheduled", "running"}
  /\ task[o].must_cancel
  /\ task' = [task EXCEPT ![o] = RunCancelled(@)]
  /\ completion' = [completion EXCEPT ![o] = "ready"]
  /\ UNCHANGED <<nTasks, tasks, task_queues, running_tasks, waiters, processor,
                 concurrency_limits>>
  /\ UNCHANGED <<tvars, svars, pvars, uvars, wvars>>

\* list.remove(x): drops the first occurrence
RemoveFirst(q, x) ==
  LET i == CHOOSE k \in 1..Len(q) : q[k] = x /\ \A j \in 1..(k-1) : q[j] # x
  IN SubSeq(q, 1, i-1) \o SubSeq(q, i+1, Len(q))

InQueue(q, x) == \E k \in 1..Len(q) : q[k] = x

\* mutant of CancelQueued: the id is left in the wait queue
CancelQueued_KeepsId(M, o, task_id) ==
  [M EXCEPT !.task[o].status = "failed",
            !.task[o].error = "Task was cancelled while in queue",
            !.task[o].completed_at = now]

\* cancel_task, branch "task is queued" (lines 220-231)
CancelQueued(M, o, task_id) ==
  LET tt == M.task[o].task_type
      M1 == [M EXCEPT !.task_queues[tt] = RemoveFirst(@, task_id)]
      M2 == RenumberQueue(M1, tt)
  IN [M2 EXCEPT !.task[o].status = "failed",
                !.task[o].error = "Task was cancelled while in queue",
                !.task[o].completed_at = now]

AioDone(t) == t.aio \in {"done", "cancelled"}

\* mutant of CancelTaskOutcome: "not task.task.done()" is not tested
CancelTaskOutcome_NoDoneTest(M, task_id) ==
  LET o == M.tasks[task_id] IN
  IF o = NoTask THEN "False"
  ELSE IF M.task[o].status = "queued"
  THEN IF InQueue(M.task_queues[M.task[o].task_type], task_id) THEN "True" ELSE "False"
  ELSE IF M.task[o].aio # "none" THEN "await"
  ELSE "False"

\* cancel_task, lines 215-245: what the call does at its first step: it
\* returns True or False, or suspends at "await task.task".
CancelTaskOutcome(M, task_id) ==
  LET o == M.tasks[task_id] IN
  IF o = NoTask THEN "False"
  ELSE IF M.task[o].status = "queued"
  THEN IF InQueue(M.task_queues[M.task[o].task_type], task_id) THEN "True" ELSE "False"
  ELSE IF M.task[o].aio # "none" /\ ~AioDone(M.task[o]) THEN "await"
  ELSE "False"

\* cancel_task up to its return or up to "await task.task"
cancel_task(task_id) ==
  LET o == tasks[task_id]
      outcome == CancelTaskOutcome(Mgr, task_id) IN
  /\ UNCHANGED <<nTasks, completion, processor, concurrency_limits>>
  /\ IF outcome = "True"
     THEN /\ SetMgr(CancelQueued(Mgr, o, task_id))
          /\ UNCHANGED waiters
     ELSE IF outcome = "await"
     THEN /\ waiters[o] < MaxCancelWaiters
          /\ task' = [task EXCEPT ![o].must_cancel = TRUE]
          /\ waiters' = [waiters EXCEPT ![o] = @ + 1]
          /\ UNCHANGED <<tasks, task_queues, running_tasks>>
     ELSE UNCHANGED <<task, tasks, task_queues, running_tasks, waiters>>
  /\ UNCHANGED <<tvars, svars, pvars, uvars, wvars>>

\* mutant of CancelResume: the id stays in the running set
CancelResume_KeepsSlot(M, o) ==
  [M EXCEPT !.task[o].status = "failed",
            !.task[o].error = "Task was cancelled",
            !.task[o].completed_at = now]

\* cancel_task resumed with CancelledError from "await task.task"
\* (lines 238-244)
CancelResume(M, o) ==
  LET tt == M.task[o].task_type
  IN [M EXCEPT !.task[o].status = "failed",
               !.task[o].error = "Task was cancelled",
               !.task[o].completed_at = now,
               !.running_tasks[tt] = @ \ {M.task[o].task_id}]

\* the cancel_task calls awaiting o's asyncio task, the one made by
\* cancel_all_tasks left out
ExternalWaiters(o) ==
  waiters[o] - (IF cancel_all.pc = "cancelling" /\ cancel_all.awaiting = o THEN 1 ELSE 0)

CancelTaskResume(o) ==
  /\ ExternalWaiters(o) > 0
  /\ task[o].aio = "cancelled"
  /\ SetMgr(CancelResume(Mgr, o))
  /\ waiters' = [waiters EXCEPT ![o] = @ - 1]
  /\ UNCHANGED <<nTasks, completion, processor, concurrency_limits>>
  /\ UNCHANGED <<tvars, svars, pvars, uvars, wvars>>

\* _handle_task_completion.  The callbacks of a finished asyncio task run
\* in registration order, so a suspended cancel_task resumes first.
\* set.remove raises KeyError when the id is not in the running set.
HandleTaskCompletion(o) ==
  /\ completion[o] = "ready"
  /\ waiters[o] = 0
  /\ LET tt == task[o].task_type
         id == task[o].task_id
     IN IF id \in running_tasks[tt]
        THEN /\ SetMgr(ProcessQueueForType(
                         [Mgr EXCEPT !.running_tasks[tt] = @ \ {id}], tt))
             /\ completion' = [completion EXCEPT ![o] = "done"]
        ELSE /\ completion' = [completion EXCEPT ![o] = "raised"]
             /\ UNCHANGED <<task, tasks, task_queues, running_tasks>>
  /\ UNCHANGED <<nTasks, waiters, processor, concurrency_limits>>
  /\ UNCHANGED <<tvars, svars, pvars, uvars, wvars>>

\* mutant of ProcessQueuesFrom: the loop body starts nothing
ProcessQueuesFrom_Idle(M, i) == M

\* One iteration of the _process_queues loop (between two sleeps).
RECURSIVE ProcessQueuesFrom(_, _)
ProcessQueuesFrom(M, i) ==
  IF i > Len(TaskTypeOrder) THEN M
  ELSE LET tt == TaskTypeOrder[i]
       IN ProcessQueuesFrom(
            IF Cardinality(M.running_tasks[tt]) < M.concurrency_limits[tt]
            THEN ProcessQueueForType(M, tt) ELSE M, i + 1)

ProcessQueues ==
  /\ processor
  /\ SetMgr(ProcessQueuesFrom(Mgr, 1))
  /\ UNCHANGED <<nTasks, waiters, completion, processor, concurrency_limits>>
  /\ UNCHANGED <<tvars, svars, pvars, uvars, wvars>>

\* ------------------------------------------------- cancel_all_tasks
NoCancelAll == [pc |-> "none", remaining |-> {}, awaiting |-> NoTask]

SInit ==
  /\ cancel_all = NoCancelAll
  /\ ucancel_all = [pc |-> "none", awaiting |-> 0, size |-> 0]

\* the ids waiting in some category's queue
QueuedIds(M) ==
  UNION {{M.task_queues[tt][k] : k \in 1..Len(M.task_queues[tt])} : tt \in TaskType}

\* mutant of CancelAllQueued: every task of the table is marked failed
CancelAllQueued_MarksAll(M) ==
  [M EXCEPT
     !.task = [o \in Objs |->
       IF M.task[o].status # "none"
       THEN [M.task[o] EXCEPT !.status = "failed",
                              !.error = "Task was cancelled during shutdown",
                              !.completed_at = now]
       ELSE M.task[o]],
     !.task_queues = [tt \in TaskType |-> <<>>]]

\* mutant of CancelAllQueued: the queues are cleared, the tasks not marked
CancelAllQueued_Unmarked(M) ==
  [M EXCEPT !.task_queues = [tt \in TaskType |-> <<>>]]

\* cancel_all_tasks, lines 250-256: every queued task is marked failed,
\* every queue is cleared.
CancelAllQueued(M) ==
  [M EXCEPT
     !.task = [o \in Objs |->
       IF \E id \in QueuedIds(M) : M.tasks[id] = o
       THEN [M.task[o] EXCEPT !.status = "failed",
                              !.error = "Task was cancelled during shutdown",
                              !.completed_at = now]
       ELSE M.task[o]],
     !.task_queues = [tt \in TaskType |-> <<>>]]

\* cancel_all_tasks, lines 263-266: the loop "await self.cancel_task(id)"
\* over the ids still to be visited (a list made from sets, so in any
\* order), run until a cancel_task suspends or the loop ends.  The queues
\* are empty, so a cancel_task that does not suspend returns False and
\* changes nothing; W is the waiters map.
CancelAllProceed(M, W, rem) ==
  LET A == {id \in rem : CancelTaskOutcome(M, id) = "await"} IN
  IF A = {}
  THEN /\ SetMgr(M)
       /\ waiters' = W
       /\ cancel_all' = [pc |-> "done", remaining |-> {}, awaiting |-> NoTask]
  ELSE \E id \in A :
         LET o == M.tasks[id] IN
         /\ SetMgr([M EXCEPT !.task[o].must_cancel = TRUE])
         /\ waiters' = [W EXCEPT ![o] = @ + 1]
         /\ cancel_all' = [pc |-> "cancelling", remaining |-> rem \ {id},
                           awaiting |-> o]

\* cancel_all_tasks from its call to its first suspension (lines 247-265)
cancel_all_tasks ==
  /\ cancel_all.pc = "none"
  /\ LET M1 == CancelAllQueued(Mgr)
     IN CancelAllProceed(M1, waiters,
                         UNION {M1.running_tasks[tt] : tt \in TaskType})
  /\ UNCHANGED <<nTasks, completion, processor, concurrency_limits>>
  /\ UNCHANGED <<tvars, ucancel_all, uvars, wvars, pvars>>

\* cancel_all_tasks resumed: the cancel_task it awaits gets CancelledError
\* from "await task.task", marks the task and returns True (lines 238-244),
\* and the loop goes on.
CancelAllTasksResume ==
  /\ cancel_all.pc = "cancelling"
  /\ task[cancel_all.awaiting].aio = "cancelled"
  /\ CancelAllProceed(CancelResume(Mgr, cancel_all.awaiting),
                      [waiters EXCEPT ![cancel_all.awaiting] = @ - 1],
                      cancel_all.remaining)
  /\ UNCHANGED <<nTasks, completion, processor, concurrency_limits>>
  /\ UNCHANGED <<tvars, ucancel_all, uvars, wvars, pvars>>

\* Task.to_dict, lines 53-65: the snapshot get_task_status returns
to_dict(t) ==
  [task_id |-> t.task_id, status |-> t.status, type |-> t.task_type,
   result |-> t.result, error |-> t.error, queue_position |-> t.queue_position,
   started_at |-> t.started_at, completed_at |-> t.completed_at]

\* get_task_status, lines 173-177
get_task_status(task_id) ==
  IF tasks[task_id] = NoTask THEN <<"not_found", None>>
  ELSE <<task[tasks[task_id]].status, to_dict(task[tasks[task_id]])>>

\* mutant of get_queue_status: the queue length is reported as running
get_queue_status_Swapped(task_type) ==
  [running |-> Len(task_queues[task_type]),
   queued |-> Len(task_queues[task_type]),
   limit |-> concurrency_limits[task_type]]

\* get_queue_status, lines 189-194 (one entry of the dict of lines 196-203)
get_queue_status(task_type) ==
  [running |-> Cardinality(running_tasks[task_type]),
   queued |-> Len(task_queues[task_type]),
   limit |-> concurrency_limits[task_type]]

\* mutant of IsOld: the age is not looked at
IsOld_AnyCompleted(t, current_time) == t.completed_at # NoTime

\* mutant of IsOld: the comparison is turned round
IsOld_Younger(t, current_time) ==
  /\ t.completed_at # NoTime
  /\ current_time - t.completed_at < TASK_RETENTION_MINUTES

\* _cleanup_old_tasks, lines 276-279: "if task.completed_at:
\* minutes_old = ...; if minutes_old > self._retention_minutes"
IsOld(t, current_time) ==
  /\ t.completed_at # NoTime
  /\ current_time - t.completed_at > TASK_RETENTION_MINUTES

\* One iteration of the _cleanup_old_tasks loop (lines 271-287), run when
\* its sleep is over: the old tasks are deleted from the task table.
CleanupOldTasks ==
  /\ cleanup_wake # NoTime
  /\ now >= cleanup_wake
  /\ tasks' = [id \in TaskIds |->
       IF tasks[id] # NoTask /\ IsOld(task[tasks[id]], now) THEN NoTask ELSE tasks[id]]
  /\ cleanup_wake' = now + CleanupSleepMinutes
  /\ UNCHANGED <<task, nTasks, task_queues, running_tasks, waiters, completion,
                 processor, concurrency_limits, now>>
  /\ UNCHANGED <<svars, pvars, uvars, wvars>>

\* No step of the event loop is ready to run: every created asyncio task
\* has taken its first step, every requested cancellation has been
\* delivered, every done-callback and every resumption has run.
Quiescent ==
  \A o \in Objs :
    /\ task[o].aio # "scheduled"
    /\ ~(task[o].aio = "running" /\ task[o].must_cancel)
    /\ completion[o] # "ready"
    /\ ~(waiters[o] > 0 /\ AioDone(task[o]))

\* A minute passes.  The steps that are ready run first, and the sweep
\* runs when its sleep is over.
Tick ==
  /\ now < MaxClock
  /\ Quiescent
  /\ cleanup_wake = NoTime \/ now < cleanup_wake
  /\ now' = now + 1
  /\ UNCHANGED <<task, nTasks, tasks, task_queues, running_tasks, waiters,
                 completion, processor, concurrency_limits, cleanup_wake>>
  /\ UNCHANGED <<svars, pvars, uvars, wvars>>

\* ====================================================================
\* Per-user single-flight manager (bot/services/task_manager.py)
\* ====================================================================
Users == {"u1"}
Calls == 1..MaxCalls
NoCall == 0
NoReturn == -2           \* queue_task has not returned for this call

NoCallRec == [user |-> "none", st |-> "none", must_cancel |-> FALSE, ret |-> NoReturn]

\* UserTaskManager.__init__ serving the users U
UInitFor(U, queuing) ==
  /\ ENABLE_TASK_QUEUING = queuing
  /\ call = [c \in Calls |-> NoCallRec]
  /\ nCalls = 0
  /\ user_task_queues = [u \in U |-> <<>>]
  /\ queue_keys = {}
  /\ user_running_tasks = [u \in U |-> NoCall]
  /\ user_cancel_messages = [u \in U |-> FALSE]
  /\ uwaiters = [c \in Calls |-> 0]

UInit(queuing) == UInitFor(Users, queuing)

\* asyncio.Task.done() of the task created for call c
Done(c) == call[c].st = "ended"

\* "user_id in user_running_tasks and not user_running_tasks[user_id].done()"
IsTaskRunning(u) ==
  user_running_tasks[u] # NoCall /\ ~Done(user_running_tasks[u])

\* queue_task_with_queueing (lines 78-86)
queue_task_with_queueing(u, c) ==
  IF user_running_tasks[u] = NoCall \/ Done(user_running_tasks[u])
  THEN /\ user_running_tasks' = [user_running_tasks EXCEPT ![u] = c]
       /\ call' = [call EXCEPT ![c] = [user |-> u, st |-> "scheduled",
                                       must_cancel |-> FALSE, ret |-> 0]]
       /\ UNCHANGED <<user_task_queues, queue_keys>>
  ELSE /\ user_task_queues' = [user_task_queues EXCEPT ![u] = Append(@, c)]
       /\ queue_keys' = queue_keys \cup {u}
       /\ call' = [call EXCEPT ![c] = [user |-> u, st |-> "queued",
                                       must_cancel |-> FALSE,
                                       ret |-> Len(user_task_queues[u]) + 1]]
       /\ UNCHANGED user_running_tasks

\* queue_task_single_mode (lines 102-129)
queue_task_single_mode(u, c) ==
  IF IsTaskRunning(u)
  THEN /\ call' = [call EXCEPT ![c] = [user |-> u, st |-> "rejected",
                                       must_cancel |-> FALSE, ret |-> -1]]
       /\ UNCHANGED <<user_running_tasks, user_task_queues, queue_keys>>
  ELSE /\ user_running_tasks' = [user_running_tasks EXCEPT ![u] = c]
       /\ call' = [call EXCEPT ![c] = [user |-> u, st |-> "scheduled",
                                       must_cancel |-> FALSE, ret |-> 0]]
       /\ UNCHANGED <<user_task_queues, queue_keys>>

queue_task(u) ==
  /\ nCalls < MaxCalls
  /\ nCalls' = nCalls + 1
  /\ IF ENABLE_TASK_QUEUING
     THEN queue_task_with_queueing(u, nCalls + 1)
     ELSE queue_task_single_mode(u, nCalls + 1)
  /\ UNCHANGED <<ENABLE_TASK_QUEUING, user_cancel_messages, uwaiters>>
  /\ UNCHANGED <<bvars, svars, pvars, wvars>>

\* First step of a wrapped task: runs to "await task_func()".  The
\* single-mode wrapper first drops the user's cancel prompt (line 112).
WrappedTaskStart(c) ==
  /\ call[c].st = "scheduled"
  /\ ~call[c].must_cancel
  /\ call' = [call EXCEPT ![c].st = "executing"]
  /\ user_cancel_messages' =
       IF ENABLE_TASK_QUEUING THEN user_cancel_messages
       ELSE [user_cancel_messages EXCEPT ![call[c].user] = FALSE]
  /\ UNCHANGED <<ENABLE_TASK_QUEUING, nCalls, user_task_queues, queue_keys,
                 user_running_tasks, uwaiters>>
  /\ UNCHANGED <<bvars, svars, pvars, wvars>>

\* The finally clause of the queueing wrapper (lines 66-76): drop the
\* user's entry, start the head of the user's queue or drop the empty queue.
FinallyQueueing(c) ==
  LET u == call[c].user IN
  IF user_task_queues[u] # <<>>
  THEN LET next_task == Head(user_task_queues[u]) IN
       /\ user_task_queues' = [user_task_queues EXCEPT ![u] = Tail(@)]
       /\ queue_keys' = queue_keys \cup {u}
       /\ user_running_tasks' = [user_running_tasks EXCEPT ![u] = next_task]
       /\ call' = [call EXCEPT ![c].st = "ended", ![next_task].st = "scheduled"]
  ELSE /\ queue_keys' = queue_keys \ {u}
       /\ user_running_tasks' = [user_running_tasks EXCEPT ![u] = NoCall]
       /\ call' = [call EXCEPT ![c].st = "ended"]
       /\ UNCHANGED user_task_queues

\* The finally clause of the single-mode wrapper (lines 123-125)
FinallySingle(c) ==
  /\ user_running_tasks' = [user_running_tasks EXCEPT ![call[c].user] = NoCall]
  /\ call' = [call EXCEPT ![c].st = "ended"]
  /\ UNCHANGED <<user_task_queues, queue_keys>>

\* task_func returns, raises, or (after cancel()) raises CancelledError:
\* in each case the wrapper's finally clause runs and the task is done.
WrappedTaskEnd(c) ==
  /\ call[c].st = "executing"
  /\ IF ENABLE_TASK_QUEUING THEN FinallyQueueing(c) ELSE FinallySingle(c)
  /\ UNCHANGED <<ENABLE_TASK_QUEUING, nCalls, user_cancel_messages, uwaiters>>
  /\ UNCHANGED <<bvars, svars, pvars, wvars>>

\* A task cancelled before its first step never enters the wrapper:
\* no finally clause runs.
WrappedTaskCancelledUnstarted(c) ==
  /\ call[c].st = "scheduled"
  /\ call[c].must_cancel
  /\ call' = [call EXCEPT ![c].st = "ended"]
  /\ UNCHANGED <<ENABLE_TASK_QUEUING, nCalls, user_task_queues, queue_keys,
                 user_running_tasks, user_cancel_messages, uwaiters>>
  /\ UNCHANGED <<bvars, svars, pvars, wvars>>

\* cancel_user_task up to "await user_running_tasks[user_id]" (lines 141-146)
cancel_user_task(u) ==
  /\ IF IsTaskRunning(u)
     THEN /\ uwaiters[user_running_tasks[u]] < MaxCancelWaiters
          /\ call' = [call EXCEPT ![user_running_tasks[u]].must_cancel = TRUE]
          /\ uwaiters' = [uwaiters EXCEPT ![user_running_tasks[u]] = @ + 1]
     ELSE UNCHANGED <<call, uwaiters>>
  /\ UNCHANGED <<ENABLE_TASK_QUEUING, nCalls, user_task_queues, queue_keys,
                 user_running_tasks, user_cancel_messages>>
  /\ UNCHANGED <<bvars, svars, pvars, wvars>>

\* cancel_user_task resumed when the awaited task is done (lines 147-154):
\* user_running_tasks.pop(user_id, None)
CancelUserTaskResume(c) ==
  /\ uwaiters[c] > 0
  /\ Done(c)
  /\ user_running_tasks' = [user_running_tasks EXCEPT ![call[c].user] = NoCall]
  /\ uwaiters' = [uwaiters EXCEPT ![c] = @ - 1]
  /\ UNCHANGED <<ENABLE_TASK_QUEUING, call, nCalls, user_task_queues,
                 queue_keys, user_cancel_messages>>
  /\ UNCHANGED <<bvars, svars, pvars, wvars>>

\* set_cancel_message (called after a rejected request, user_service.py)
set_cancel_message(u) ==
  /\ ~user_cancel_messages[u]
  /\ user_cancel_messages' = [user_cancel_messages EXCEPT ![u] = TRUE]
  /\ UNCHANGED <<ENABLE_TASK_QUEUING, call, nCalls, user_task_queues,
                 queue_keys, user_running_tasks, uwaiters>>
  /\ UNCHANGED <<bvars, svars, pvars, wvars>>

\* the keys of the dict user_running_tasks
RunningKeys == {u \in Users : user_running_tasks[u] # NoCall}

\* cancel_all_tasks (bot), lines 207-219: the loop "await task" over
\* user_running_tasks.items(), run until an await suspends or the loop
\* ends.  Awaiting a task that is done does not suspend.  n is the size of
\* the dict when the iteration began: the iterator raises RuntimeError
\* ("dictionary changed size during iteration") when asked for the next
\* item of a dict of another size.  After the loop the two maps are cleared.
UserCancelAllProceed(C, n) ==
  IF Cardinality(RunningKeys) # n
  THEN /\ ucancel_all' = [pc |-> "raised", awaiting |-> NoCall, size |-> n]
       /\ call' = C
       /\ UNCHANGED <<user_running_tasks, user_cancel_messages>>
  ELSE LET NotDone == {u \in RunningKeys : C[user_running_tasks[u]].st # "ended"} IN
       IF NotDone = {}
       THEN /\ ucancel_all' = [pc |-> "done", awaiting |-> NoCall, size |-> n]
            /\ call' = C
            /\ user_running_tasks' = [u \in Users |-> NoCall]
            /\ user_cancel_messages' = [u \in Users |-> FALSE]
       ELSE \E u \in NotDone :
              /\ ucancel_all' = [pc |-> "awaiting",
                                 awaiting |-> user_running_tasks[u], size |-> n]
              /\ call' = C
              /\ UNCHANGED <<user_running_tasks, user_cancel_messages>>

\* cancel_all_tasks (bot) from its call to its first suspension (lines
\* 199-209): the queues are cleared, every stored task that is not done is
\* cancelled, the first task that is not done is awaited.  It is called at
\* shutdown, when no request handler is suspended in cancel_user_task.
user_cancel_all_tasks ==
  /\ ucancel_all.pc = "none"
  /\ \A c \in Calls : uwaiters[c] = 0
  /\ user_task_queues' = [u \in Users |-> <<>>]
  /\ queue_keys' = {}
  /\ UserCancelAllProceed(
       [c \in Calls |->
          IF (\E u \in RunningKeys : user_running_tasks[u] = c) /\ ~Done(c)
          THEN [call[c] EXCEPT !.must_cancel = TRUE] ELSE call[c]],
       Cardinality(RunningKeys))
  /\ UNCHANGED <<ENABLE_TASK_QUEUING, nCalls, uwaiters>>
  /\ UNCHANGED <<bvars, cancel_all, wvars, pvars>>

\* cancel_all_tasks (bot) resumed when the task it awaits is done
UserCancelAllResume ==
  /\ ucancel_all.pc = "awaiting"
  /\ Done(ucancel_all.awaiting)
  /\ UserCancelAllProceed(call, ucancel_all.size)
  /\ UNCHANGED <<ENABLE_TASK_QUEUING, nCalls, user_task_queues, queue_keys,
                 uwaiters>>
  /\ UNCHANGED <<bvars, cancel_all, wvars, pvars>>

\* ====================================================================
\* Webhook rendezvous: assemblyai_webhook (backend/api/endpoints.py) and
\* send_message_to_user (bot/api/endpoints.py), one action per awaited call
\* ====================================================================
Webhooks == 1..MaxWebhooks

NoWebhook ==
  [pc |-> "none", secret |-> FALSE, params |-> FALSE, status |-> "none",
   checked |-> FALSE, delivered |-> FALSE, late |-> FALSE, noticed |-> FALSE,
   did |-> {}, message_sent |-> FALSE, response |-> "none"]

WInit ==
  /\ rec_status = "processing"
  /\ delivered_to_user = FALSE
  /\ wh = [w \in Webhooks |-> NoWebhook]
  /\ nWebhooks = 0
  /\ transport_sends = 0
  /\ notices = 0
  /\ agent_posts = 0

Return(h, resp) == [h EXCEPT !.pc = "returned", !.response = resp]

\* mutant of AlreadyDelivered: the handler never short-circuits
AlreadyDelivered_Never(delivered) == FALSE

\* "if delivered: return {success: True, ...}" (lines 379-381)
AlreadyDelivered(delivered) == delivered

\* mutant of Validate: the secret header is not compared
Validate_NoSecretCheck(secret, params) ==
  IF ~params THEN "400" ELSE "ok"

\* Lines 325-372: the answer of the secret check and of the parameter
\* validation ("ok": the handler goes on).
Validate(secret, params) ==
  IF ~secret THEN "401"
  ELSE IF ~params THEN "400"
  ELSE "ok"

\* Lines 323-372: secret check and parameter validation, no suspension.
\* secret: the X-Webhook-Secret header matches; params: t_id, chat_id and
\* db_thread_id are present and chat_id is an integer; status: the payload's.
\* "late" records whether R was already delivered when the request arrived,
\* "noticed" whether a failure notice for R had already been sent.
WebhookReceive(secret, params, status) ==
  /\ nWebhooks < MaxWebhooks
  /\ nWebhooks' = nWebhooks + 1
  /\ LET w == nWebhooks + 1
         h == [NoWebhook EXCEPT !.secret = secret, !.params = params,
                                !.status = status, !.late = delivered_to_user,
                                !.noticed = (notices > 0)]
     IN wh' = [wh EXCEPT ![w] =
          IF Validate(secret, params) = "ok" THEN [h EXCEPT !.pc = "check"]
          ELSE Return(h, Validate(secret, params))]
  /\ UNCHANGED <<rec_status, delivered_to_user, transport_sends, notices, agent_posts>>
  /\ UNCHANGED <<bvars, svars, pvars, uvars>>

\* Lines 378-393: read the delivered flag, then parse the payload.
WebhookCheckDelivery(w, db_ok) ==
  /\ wh[w].pc = "check"
  /\ wh' = [wh EXCEPT ![w] =
       LET h == [@ EXCEPT !.checked = TRUE] IN
       IF ~db_ok THEN Return(h, "500")
       ELSE IF AlreadyDelivered(delivered_to_user)
       THEN Return([h EXCEPT !.delivered = TRUE], "success: already delivered")
       ELSE IF h.status = "missing" THEN Return(h, "400")
       ELSE IF h.status = "completed" THEN [h EXCEPT !.pc = "fetch"]
       ELSE [h EXCEPT !.pc = "update_error"]]
  /\ UNCHANGED <<rec_status, delivered_to_user, nWebhooks, transport_sends,
                 notices, agent_posts>>
  /\ UNCHANGED <<bvars, svars, pvars, uvars>>

\* Line 397: get_transcript_result
WebhookFetch(w, ok) ==
  /\ wh[w].pc = "fetch"
  /\ wh' = [wh EXCEPT ![w] =
       IF ok THEN [@ EXCEPT !.pc = "update", !.did = @ \cup {"fetch"}]
       ELSE Return([@ EXCEPT !.did = @ \cup {"fetch"}], "500")]
  /\ UNCHANGED <<rec_status, delivered_to_user, nWebhooks, transport_sends,
                 notices, agent_posts>>
  /\ UNCHANGED <<bvars, svars, pvars, uvars>>

\* Line 434: update_stt_record(t_id, {status: completed, transcript, ...})
WebhookUpdateCompleted(w, ok) ==
  /\ wh[w].pc = "update"
  /\ IF ok
     THEN /\ rec_status' = "completed"
          /\ wh' = [wh EXCEPT ![w].pc = "post", ![w].did = @ \cup {"update"}]
     ELSE /\ wh' = [wh EXCEPT ![w] = Return(@, "500")]
          /\ UNCHANGED rec_status
  /\ UNCHANGED <<delivered_to_user, nWebhooks, transport_sends, notices, agent_posts>>
  /\ UNCHANGED <<bvars, svars, pvars, uvars>>

\* mutant of PostOutcome: a failed request leaves the handler by its outer
\* "except Exception"
PostOutcome_Raises(h, reached) ==
  IF reached THEN [h EXCEPT !.pc = "bot_send"] ELSE Return(h, "500")

\* Lines 498-509: a request that raises or is answered with a status other
\* than 200 is logged inside the try block and the handler goes on
\* (message_sent stays False).
PostOutcome(h, reached) ==
  [h EXCEPT !.pc = IF reached THEN "bot_send" ELSE "finish"]

\* Lines 498-509: POST /send_message_to_user.  reached = FALSE: the request
\* raises or is answered with a status other than 200.
WebhookPost(w, reached) ==
  /\ wh[w].pc = "post"
  /\ wh' = [wh EXCEPT ![w] = PostOutcome(@, reached)]
  /\ UNCHANGED <<rec_status, delivered_to_user, nWebhooks, transport_sends,
                 notices, agent_posts>>
  /\ UNCHANGED <<bvars, svars, pvars, uvars>>

\* mutant of SendOutcome: a failed send goes on to the delivered-flag update
SendOutcome_FlagOnFailure(h, ok) ==
  [h EXCEPT !.pc = "bot_flag", !.did = IF ok THEN @ \cup {"send"} ELSE @]

\* bot/api/endpoints.py lines 70-112: where the bot's handler stands after
\* the send.  A send that raises leaves the try block for "except
\* Exception" (line 110), past the delivered-flag update, and the handler
\* returns {"success": False}, which is answered with HTTP 200: the
\* backend sets message_sent = True either way.
SendOutcome(h, ok) ==
  IF ok THEN [h EXCEPT !.pc = "bot_flag", !.did = @ \cup {"send"}]
  ELSE [h EXCEPT !.pc = "finish", !.message_sent = TRUE]

\* bot/api/endpoints.py lines 49-87: the chat-transport send.
BotSendMessage(w, ok) ==
  /\ wh[w].pc = "bot_send"
  /\ transport_sends' = IF ok THEN transport_sends + 1 ELSE transport_sends
  /\ wh' = [wh EXCEPT ![w] = SendOutcome(@, ok)]
  /\ UNCHANGED <<rec_status, delivered_to_user, nWebhooks, notices, agent_posts>>
  /\ UNCHANGED <<bvars, svars, pvars, uvars>>

\* bot/api/endpoints.py lines 100-109: update_stt_record(id, {delivered_to_user: True});
\* a failure of the update is logged and swallowed.
BotSetDelivered(w, ok) ==
  /\ wh[w].pc = "bot_flag"
  /\ delivered_to_user' = (ok \/ delivered_to_user)
  /\ wh' = [wh EXCEPT ![w].pc = "finish", ![w].message_sent = TRUE]
  /\ UNCHANGED <<rec_status, nWebhooks, transport_sends, notices, agent_posts>>
  /\ UNCHANGED <<bvars, svars, pvars, uvars>>

\* Lines 511-532 and 582: the secondary post to /process_message, the answer.
WebhookFinish(w) ==
  /\ wh[w].pc = "finish"
  /\ agent_posts' = IF wh[w].message_sent THEN agent_posts + 1 ELSE agent_posts
  /\ wh' = [wh EXCEPT ![w] = Return(@, "success")]
  /\ UNCHANGED <<rec_status, delivered_to_user, nWebhooks, transport_sends, notices>>
  /\ UNCHANGED <<bvars, svars, pvars, uvars>>

\* Line 544: update_stt_record(t_id, {status: error, ...})
WebhookUpdateError(w, ok) ==
  /\ wh[w].pc = "update_error"
  /\ IF ok
     THEN /\ rec_status' = "error"
          /\ wh' = [wh EXCEPT ![w].pc = "post_error", ![w].did = @ \cup {"update"}]
     ELSE /\ wh' = [wh EXCEPT ![w] = Return(@, "500")]
          /\ UNCHANGED rec_status
  /\ UNCHANGED <<delivered_to_user, nWebhooks, transport_sends, notices, agent_posts>>
  /\ UNCHANGED <<bvars, svars, pvars, uvars>>

\* Lines 571-582: POST /send_message_to_user with the failure notice
\* (no metadata, so the bot sets no delivered flag), then the answer.
WebhookPostError(w, reached) ==
  /\ wh[w].pc = "post_error"
  /\ wh' = [wh EXCEPT ![w] = IF reached THEN [@ EXCEPT !.pc = "bot_notice"]
                             ELSE Return(@, "success")]
  /\ UNCHANGED <<rec_status, delivered_to_user, nWebhooks, transport_sends,
                 notices, agent_posts>>
  /\ UNCHANGED <<bvars, svars, pvars, uvars>>

BotSendNotice(w, ok) ==
  /\ wh[w].pc = "bot_notice"
  /\ notices' = IF ok THEN notices + 1 ELSE notices
  /\ wh' = [wh EXCEPT ![w] =
       Return([@ EXCEPT !.did = IF ok THEN @ \cup {"send"} ELSE @], "success")]
  /\ UNCHANGED <<rec_status, delivered_to_user, nWebhooks, transport_sends, agent_posts>>
  /\ UNCHANGED <<bvars, svars, pvars, uvars>>

\* ====================================================================
\* Specifications
\* ====================================================================
\* The category manager; the per-user manager (config.py: queuing on) and
\* the webhook handler idle
\* ====================================================================
\* Placeholder messages of user requests (bot/services/user_service.py)
\* ====================================================================
NoRequest == [kind |-> "none", placeholder |-> "none", stt |-> "none"]

PInit == requests = [c \in Calls |-> NoRequest]

\* process_user_message, lines 150-217 and 219-382: the placeholder is sent
\* (the send changes nothing the manager reads), the work function is
\* defined and handed to queue_task.
process_user_message(u, kind) ==
  LET c == nCalls + 1 IN
  /\ nCalls < MaxRequests
  /\ nCalls' = c
  /\ IF ENABLE_TASK_QUEUING
     THEN queue_task_with_queueing(u, c)
     ELSE queue_task_single_mode(u, c)
  /\ requests' = [requests EXCEPT ![c] =
                    [kind |-> kind, placeholder |-> "shown", stt |-> "none"]]
  /\ UNCHANGED <<ENABLE_TASK_QUEUING, user_cancel_messages, uwaiters>>
  /\ UNCHANGED <<bvars, svars, wvars>>

\* how a work function ends
Outcomes == {"returned", "raised", "cancelled"}

\* agent_task, lines 231-352: the reply path deletes the placeholder (304),
\* the "except Exception" path deletes it (335), the CancelledError path
\* re-raises at once (327-329).
AgentTaskPlaceholder(r, outcome) ==
  IF outcome \in {"returned", "raised"}
  THEN [r EXCEPT !.placeholder = "deleted"]
  ELSE r

\* stt_task, lines 160-191: the audio is submitted with the placeholder's
\* id; no path of the work function touches the placeholder.
SttTaskPlaceholder(r, outcome) ==
  IF outcome = "returned" THEN [r EXCEPT !.stt = "submitted"] ELSE r

\* The work function of request c ends and the wrapper's finally clause
\* runs.  A cancelled task ends with CancelledError, any other returns or
\* raises.
WorkFunctionEnd(c, outcome) ==
  /\ call[c].st = "executing"
  /\ requests[c].kind # "none"
  /\ (outcome = "cancelled") = call[c].must_cancel
  /\ IF ENABLE_TASK_QUEUING THEN FinallyQueueing(c) ELSE FinallySingle(c)
  /\ requests' = [requests EXCEPT ![c] =
                    IF @.kind = "text" THEN AgentTaskPlaceholder(@, outcome)
                    ELSE SttTaskPlaceholder(@, outcome)]
  /\ UNCHANGED <<ENABLE_TASK_QUEUING, nCalls, user_cancel_messages, uwaiters>>
  /\ UNCHANGED <<bvars, svars, wvars>>

\* The provider's callback for the audio of request c.  "completed": the
\* transcript is posted to /send_message_to_user with temp_msg_id and the
\* bot deletes the placeholder (backend endpoints 470-480, bot endpoints
\* 89-96).  "error": the notice payload is {chat_id, message} (backend
\* endpoints 566-569), so the bot deletes nothing.
CallbackPlaceholder(r, status) ==
  IF status = "completed"
  THEN [r EXCEPT !.stt = "answered", !.placeholder = "deleted"]
  ELSE [r EXCEPT !.stt = "answered"]

ProviderCallback(c, status) ==
  /\ requests[c].stt = "submitted"
  /\ requests' = [requests EXCEPT ![c] = CallbackPlaceholder(@, status)]
  /\ UNCHANGED <<bvars, svars, uvars, wvars>>

Init == (\E n \in 1..MaxLimit : BInit(n)) /\ UInit(TRUE) /\ WInit /\ SInit /\ PInit

Next ==
  \/ \E tt \in SubmittedTypes : add_task(tt)
  \/ \E o \in Objs : TaskRunStart(o)
  \/ \E o \in Objs, r \in Results : WorkReturns(o, r)
  \/ \E o \in Objs : WorkRaises(o)
  \/ \E o \in Objs : TaskCancelled(o)
  \/ \E id \in TaskIds : cancel_task(id)
  \/ \E o \in Objs : CancelTaskResume(o)
  \/ \E o \in Objs : HandleTaskCompletion(o)
  \/ ProcessQueues

Spec == Init /\ [][Next]_vars

\* The event loop runs every scheduled step: a created asyncio task takes
\* its steps, a work function that has begun ends (by return, exception or
\* cancellation), a suspended cancel_task is resumed when the task it awaits
\* is done, the completion task created by the done-callback runs, and the
\* _process_queues loop wakes up after every sleep.
Step(o) ==
  \/ TaskRunStart(o)
  \/ \E r \in Results : WorkReturns(o, r)
  \/ WorkRaises(o)
  \/ TaskCancelled(o)

Fairness ==
  /\ \A o \in Objs : WF_vars(Step(o))
  /\ \A o \in Objs : WF_vars(CancelTaskResume(o))
  /\ \A o \in Objs : WF_vars(HandleTaskCompletion(o))
  /\ WF_vars(ProcessQueues)

SpecLive == Init /\ [][Next]_vars /\ Fairness

\* The category manager with its clock and its retention sweep
\* add_task while the number of tasks followed through the sweep is below its bound
AddTaskSwept(tt) == nTasks < MaxSweptTasks /\ add_task(tt)

RetentionNext ==
  \/ \E tt \in SubmittedTypes : AddTaskSwept(tt)
  \/ \E o \in Objs : TaskRunStart(o)
  \/ \E o \in Objs, r \in Results : WorkReturns(o, r)
  \/ \E o \in Objs : WorkRaises(o)
  \/ \E o \in Objs : TaskCancelled(o)
  \/ \E id \in TaskIds : cancel_task(id)
  \/ \E o \in Objs : CancelTaskResume(o)
  \/ \E o \in Objs : HandleTaskCompletion(o)
  \/ ProcessQueues
  \/ CleanupOldTasks
  \/ Tick

SpecRetention == Init /\ [][RetentionNext]_vars

UNext ==
  \/ \E u \in Users : queue_task(u)
  \/ \E c \in Calls : WrappedTaskStart(c)
  \/ \E c \in Calls : WrappedTaskEnd(c)
  \/ \E c \in Calls : WrappedTaskCancelledUnstarted(c)
  \/ \E u \in Users : cancel_user_task(u)
  \/ \E c \in Calls : CancelUserTaskResume(c)
  \/ \E u \in Users : set_cancel_message(u)

\* The per-user manager in either queuing mode, the rest idle
UserInit ==
  BInit(TranscriptionLimit) /\ (\E queuing \in BOOLEAN : UInit(queuing)) /\ WInit /\ SInit
  /\ PInit

SpecUser == UserInit /\ [][UNext]_vars

WNext ==
  \/ \E secret, params \in BOOLEAN, status \in {"completed", "error", "missing"} :
       WebhookReceive(secret, params, status)
  \/ \E w \in Webhooks, db_ok \in BOOLEAN : WebhookCheckDelivery(w, db_ok)
  \/ \E w \in Webhooks, ok \in BOOLEAN : WebhookFetch(w, ok)
  \/ \E w \in Webhooks, ok \in BOOLEAN : WebhookUpdateCompleted(w, ok)
  \/ \E w \in Webhooks, reached \in BOOLEAN : WebhookPost(w, reached)
  \/ \E w \in Webhooks, ok \in BOOLEAN : BotSendMessage(w, ok)
  \/ \E w \in Webhooks, ok \in BOOLEAN : BotSetDelivered(w, ok)
  \/ \E w \in Webhooks : WebhookFinish(w)
  \/ \E w \in Webhooks, ok \in BOOLEAN : WebhookUpdateError(w, ok)
  \/ \E w \in Webhooks, reached \in BOOLEAN : WebhookPostError(w, reached)
  \/ \E w \in Webhooks, ok \in BOOLEAN : BotSendNotice(w, ok)

\* The webhook handler, the two task managers idle
WebhookInit == BInit(TranscriptionLimit) /\ UInit(TRUE) /\ WInit /\ SInit /\ PInit

SpecWebhook == WebhookInit /\ [][WNext]_vars

\* Shutdown of the category manager.  The lifespan hook calls
\* cancel_all_tasks after the server has stopped serving (backend/main.py
\* 77-86): no add_task arrives once it has begun, and nothing else in the
\* backend calls cancel_task.
AddTaskServing(tt) == cancel_all.pc = "none" /\ add_task(tt)

ShutdownNext ==
  \/ \E tt \in SubmittedTypes : AddTaskServing(tt)
  \/ \E o \in Objs : TaskRunStart(o)
  \/ \E o \in Objs, r \in Results : WorkReturns(o, r)
  \/ \E o \in Objs : WorkRaises(o)
  \/ \E o \in Objs : TaskCancelled(o)
  \/ \E o \in Objs : HandleTaskCompletion(o)
  \/ ProcessQueues
  \/ cancel_all_tasks
  \/ CancelAllTasksResume

SpecShutdown == Init /\ [][ShutdownNext]_vars

\* The category manager from its first add_task to the end of shutdown,
\* with cancel_task (the module's convenience function, lines 307-308)
\* called by a user of the manager until shutdown begins.
CancelTaskServing(id) == cancel_all.pc = "none" /\ cancel_task(id)

LifecycleNext ==
  \/ \E tt \in SubmittedTypes : AddTaskServing(tt)
  \/ \E o \in Objs : TaskRunStart(o)
  \/ \E o \in Objs, r \in Results : WorkReturns(o, r)
  \/ \E o \in Objs : WorkRaises(o)
  \/ \E o \in Objs : TaskCancelled(o)
  \/ \E id \in TaskIds : CancelTaskServing(id)
  \/ \E o \in Objs : CancelTaskResume(o)
  \/ \E o \in Objs : HandleTaskCompletion(o)
  \/ ProcessQueues
  \/ cancel_all_tasks
  \/ CancelAllTasksResume

SpecLifecycle == Init /\ [][LifecycleNext]_vars

\* Shutdown of the per-user manager (bot/main.py 146-151): the handlers
\* call the manager until cancel_all_tasks has begun, the wrapped tasks
\* take their steps throughout.
QueueTaskServing(u) == ucancel_all.pc = "none" /\ queue_task(u)
CancelUserTaskServing(u) == ucancel_all.pc = "none" /\ cancel_user_task(u)
SetCancelMessageServing(u) == ucancel_all.pc = "none" /\ set_cancel_message(u)

UserShutdownNext ==
  \/ \E u \in Users : QueueTaskServing(u)
  \/ \E c \in Calls : WrappedTaskStart(c)
  \/ \E c \in Calls : WrappedTaskEnd(c)
  \/ \E c \in Calls : WrappedTaskCancelledUnstarted(c)
  \/ \E u \in Users : CancelUserTaskServing(u)
  \/ \E c \in Calls : CancelUserTaskResume(c)
  \/ \E u \in Users : SetCancelMessageServing(u)
  \/ user_cancel_all_tasks
  \/ UserCancelAllResume

SpecUserShutdown == UserInit /\ [][UserShutdownNext]_vars

\* add_task called with the caller's own id, as transcribe_audio does with
\* transcription_request.task_id (backend/api/endpoints.py line 60): the
\* id may be one the table already holds.
add_task_with_id(tt, task_id) ==
  /\ nTasks < MaxTasks
  /\ LET o == nTasks + 1 IN SetMgr(AddTaskTo(Mgr, o, task_id, tt))
  /\ nTasks' = nTasks + 1
  /\ cleanup_wake' = IF cleanup_wake = NoTime THEN now ELSE cleanup_wake
  /\ processor' = TRUE
  /\ UNCHANGED <<waiters, completion, concurrency_limits, now>>
  /\ UNCHANGED <<svars, pvars, uvars, wvars>>

\* The category manager fed by callers that choose the task ids
SuppliedIdNext ==
  \/ \E tt \in SubmittedTypes, id \in TaskIds : add_task_with_id(tt, id)
  \/ \E o \in Objs : TaskRunStart(o)
  \/ \E o \in Objs, r \in Results : WorkReturns(o, r)
  \/ \E o \in Objs : WorkRaises(o)
  \/ \E o \in Objs : TaskCancelled(o)
  \/ \E id \in TaskIds : cancel_task(id)
  \/ \E o \in Objs : CancelTaskResume(o)
  \/ \E o \in Objs : HandleTaskCompletion(o)
  \/ ProcessQueues

SpecSuppliedId == Init /\ [][SuppliedIdNext]_vars

\* Two scopes of each manager.  The category manager (backend service)
\* takes tasks of two categories, each with a limit of 1..MaxLimit; the
\* per-user manager (bot service) serves two users.  The two managers run
\* in different processes and share no state: a behaviour follows one of
\* them.
ScopeTypes == {"transcription", "report"}
ScopeUsers == {"u1", "u2"}

ScopeLimits(n, m) == [transcription |-> n, report |-> m, default |-> DefaultLimit]

ScopesInit ==
  /\ \E n \in 1..MaxLimit, m \in 1..MaxLimit : BInitWith(ScopeLimits(n, m))
  /\ \E queuing \in BOOLEAN : UInitFor(ScopeUsers, queuing)
  /\ WInit
  /\ SInit
  /\ PInit

AddTaskScoped(tt) == nCalls = 0 /\ add_task(tt)
QueueTaskScoped(u) == nTasks = 0 /\ nCalls < MaxScopeCalls /\ queue_task(u)

ScopesNext ==
  \/ \E tt \in ScopeTypes : AddTaskScoped(tt)
  \/ \E o \in Objs : TaskRunStart(o)
  \/ \E o \in Objs : WorkReturns(o, "res")
  \/ \E o \in Objs : WorkRaises(o)
  \/ \E o \in Objs : TaskCancelled(o)
  \/ \E id \in TaskIds : cancel_task(id)
  \/ \E o \in Objs : CancelTaskResume(o)
  \/ \E o \in Objs : HandleTaskCompletion(o)
  \/ ProcessQueues
  \/ \E u \in ScopeUsers : QueueTaskScoped(u)
  \/ \E c \in Calls : WrappedTaskStart(c)
  \/ \E c \in Calls : WrappedTaskEnd(c)
  \/ \E c \in Calls : WrappedTaskCancelledUnstarted(c)
  \/ \E u \in ScopeUsers : cancel_user_task(u)
  \/ \E c \in Calls : CancelUserTaskResume(c)

SpecScopes == ScopesInit /\ [][ScopesNext]_vars

\* The bot serving the requests of one user: every request shows a
\* placeholder and queues a work function; the user may press the cancel
\* control; the speech-to-text provider calls back for submitted audio.
RequestKinds == {"text", "audio"}

PlaceholderNext ==
  \/ \E u \in Users, kind \in RequestKinds : process_user_message(u, kind)
  \/ \E c \in Calls : WrappedTaskStart(c)
  \/ \E c \in Calls, outcome \in Outcomes : WorkFunctionEnd(c, outcome)
  \/ \E c \in Calls : WrappedTaskCancelledUnstarted(c)
  \/ \E u \in Users : cancel_user_task(u)
  \/ \E c \in Calls : CancelUserTaskResume(c)
  \/ \E c \in Calls, status \in {"completed", "error"} : ProviderCallback(c, status)

\* The event loop runs every created task and resumes every coroutine whose
\* awaited task is done; the provider answers every submission.
PlaceholderFairness ==
  /\ \A c \in Calls : WF_vars(WrappedTaskStart(c))
  /\ \A c \in Calls : WF_vars(\E outcome \in Outcomes : WorkFunctionEnd(c, outcome))
  /\ \A c \in Calls : WF_vars(WrappedTaskCancelledUnstarted(c))
  /\ \A c \in Calls : WF_vars(CancelUserTaskResume(c))
  /\ \A c \in Calls : WF_vars(\E status \in {"completed", "error"} : ProviderCallback(c, status))

SpecPlaceholder == UserInit /\ [][PlaceholderNext]_vars /\ PlaceholderFairness

\* ====================================================================
\* Properties
\* ====================================================================
Created == 1..nTasks

\* the Task objects of category tt that hold a slot by their status
Active(tt) ==
  {o \in Created : task[o].task_type = tt /\ task[o].status \in {"pending", "running"}}

C9_PositionIffQueued ==
  \A o \in Created :
    (task[o].queue_position # NoPosition) <=> (task[o].status = "queued")

\* C10: whenever a task's status is completed or failed, exactly one of
\* result and error is non-null: a completed task has a result and no
\* error, a failed task an error and no result (stated as the claim has it).
C10_ResultXorError ==
  \A o \in Created :
    /\ task[o].status = "completed" => (task[o].result # None /\ task[o].error = None)
    /\ task[o].status = "failed" => (task[o].error # None /\ task[o].result = None)

Made == 1..nCalls

\* the calls of user u whose work function is executing
Executing(u) == {c \in Made : call[c].user = u /\ call[c].st = "executing"}

\* C2: with queuing disabled, queue_task starts a task (returns 0) only when
\* no earlier work function of the user is still executing, so at most one
\* work function per user executes at any time (stated as the claim has it).
C2_SingleModeExclusive ==
  ~ENABLE_TASK_QUEUING => \A u \in Users : Cardinality(Executing(u)) <= 1

\* C3: with queuing enabled, at most one work function per user is executing
\* at any time (stated as the claim has it).
C3_QueueModeExclusive ==
  ENABLE_TASK_QUEUING => \A u \in Users : Cardinality(Executing(u)) <= 1

\* C7: with queuing enabled, the queued items of one user start in the
\* order of their queue_task calls, each only after the previously queued
\* one has ended: when a queued item is started, every item of that user
\* queued before it has ended (stated as the claim has it).
C7_UserQueueFifo ==
  [][\A c1, c2 \in Calls :
       (/\ ENABLE_TASK_QUEUING
        /\ c1 < c2
        /\ call[c1].user = call[c2].user
        /\ call[c1].ret > 0
        /\ call[c2].st = "queued"
        /\ call'[c2].st = "scheduled")
       => call'[c1].st = "ended"]_vars

Received == 1..nWebhooks

\* C4: a webhook for R that arrives after R's delivered flag has become
\* true (or that reads the flag as true) fetches nothing from the provider,
\* updates nothing and sends nothing, and when it has read the flag it has
\* returned success right after the check; every transcript send is the
\* send of a webhook that arrived before the flag was set.
C4_DeliveredShortCircuit ==
  /\ \A w \in Received :
       /\ (wh[w].late \/ wh[w].delivered) => wh[w].did = {}
       /\ wh[w].delivered =>
            (wh[w].pc = "returned" /\ wh[w].response = "success: already delivered")
  /\ transport_sends =
       Cardinality({w \in Received : wh[w].status = "completed" /\ "send" \in wh[w].did})

\* C4 witness: the first webhook sent the transcript and set the flag, a
\* later one has returned at the flag check, and one send happened.
C4_Witness ==
  \E w1, w2 \in Received :
    /\ w1 < w2
    /\ "send" \in wh[w1].did
    /\ delivered_to_user
    /\ wh[w2].late /\ wh[w2].delivered
    /\ wh[w2].response = "success: already delivered"
    /\ transport_sends = 1

\* C5: two completed-status webhooks for the same undelivered record,
\* handled concurrently, send the transcript to the chat transport at most
\* once (stated as the claim has it).
C5_AtMostOneSend == transport_sends <= 1

C13_CancelNoop ==
  [][\A id \in TaskIds :
       (cancel_task(id)
        /\ (tasks[id] = NoTask \/ task[tasks[id]].status \in {"completed", "failed"}))
       => /\ CancelTaskOutcome(Mgr, id) = "False"
          /\ UNCHANGED <<task, tasks, task_queues, running_tasks, waiters>>]_vars

\* C13 witness: an unknown id, a completed task and a failed task are at
\* hand, and cancel_task answers false for each of them.
C13_Witness ==
  /\ \E id \in TaskIds : tasks[id] = NoTask /\ CancelTaskOutcome(Mgr, id) = "False"
  /\ \E o \in Created :
       task[o].status = "completed" /\ CancelTaskOutcome(Mgr, task[o].task_id) = "False"
  /\ \E o \in Created :
       task[o].status = "failed" /\ CancelTaskOutcome(Mgr, task[o].task_id) = "False"

\* C14: add_task starts the task in the same step when the category's
\* running count is below its limit (status pending, id in the running set,
\* the work function not yet executed); otherwise the task stays queued,
\* its id is appended at the tail of the category's wait queue and its
\* queue_position is the new queue length.
C14_AddTask ==
  [][\A tt \in TaskType :
       add_task(tt) =>
         LET o == nTasks + 1 IN
         /\ tasks'[o] = o
         /\ IF Cardinality(running_tasks[tt]) < concurrency_limits[tt]
            THEN /\ task'[o].status = "pending"
                 /\ task'[o].aio = "scheduled"
                 /\ running_tasks'[tt] = running_tasks[tt] \cup {o}
                 /\ task_queues' = task_queues
            ELSE /\ task'[o].status = "queued"
                 /\ task'[o].aio = "none"
                 /\ task_queues'[tt] = Append(task_queues[tt], o)
                 /\ task'[o].queue_position = Len(task_queues'[tt])
                 /\ running_tasks' = running_tasks]_vars

\* C14 witness: one task was started on admission and two were queued, the
\* later one at the tail with position 2.
C14_Witness ==
  \E a, b, c \in Created :
    /\ task[a].status = "pending" /\ task[a].queue_position = NoPosition
    /\ task_queues[task[a].task_type] = <<task[b].task_id, task[c].task_id>>
    /\ b < c
    /\ task[c].queue_position = 2

C16_PurgedAfterWindow ==
  \A o \in Created :
    (task[o].completed_at # NoTime /\ now - task[o].completed_at > TASK_RETENTION_MINUTES)
    => get_task_status(task[o].task_id) = <<"not_found", None>>

\* C16 as amended: once an iteration of the sweep has run at a time when a
\* task's completed_at lay more than the retention window in the past,
\* get_task_status returns (not_found, null) for its id, and keeps doing so.
C16_PurgedBySweep ==
  [][/\ (cleanup_wake # NoTime /\ cleanup_wake' # cleanup_wake) =>
          \A o \in Created :
            (task[o].completed_at # NoTime
             /\ now - task[o].completed_at > TASK_RETENTION_MINUTES)
            => get_task_status(task[o].task_id)' = <<"not_found", None>>
     /\ \A id \in 1..nTasks :
          get_task_status(id)[1] = "not_found" => get_task_status(id)'[1] = "not_found"]_vars

\* C16 witness: a task that completed is no longer in the task table.
C16_Witness ==
  \E o \in Created :
    /\ task[o].status = "completed"
    /\ now - task[o].completed_at > TASK_RETENTION_MINUTES
    /\ get_task_status(task[o].task_id) = <<"not_found", None>>

\* C17: only a task whose completed_at is set and older than the retention
\* window leaves the task table; a queued, pending or running task and a
\* task that ended within the window is retrievable by get_task_status, and
\* the sweep changes no task's status, result or error.
C17_SweepKeepsRecent ==
  [][/\ \A o \in Created :
          (tasks[task[o].task_id] = o /\ tasks'[task[o].task_id] # o)
          => /\ task[o].completed_at # NoTime
             /\ now - task[o].completed_at > TASK_RETENTION_MINUTES
             /\ task[o].status \in {"completed", "failed"}
     /\ \A o \in 1..nTasks' :
          (\/ task'[o].status \in {"queued", "pending", "running"}
           \/ now' - task'[o].completed_at <= TASK_RETENTION_MINUTES)
          => get_task_status(task[o].task_id)' = <<task'[o].status, to_dict(task'[o])>>
     /\ CleanupOldTasks => task' = task]_vars

\* C17 witness: the sweep has removed an old task and has left in the
\* table a task that ended within the window before that sweep and a task
\* that has not ended.
C17_Witness ==
  \E a, b \in Created :
    /\ get_task_status(task[a].task_id)[1] = "not_found"
    /\ task[b].completed_at # NoTime
    /\ cleanup_wake # NoTime
    /\ task[b].completed_at <= cleanup_wake - CleanupSleepMinutes
    /\ get_task_status(task[b].task_id) = <<task[b].status, to_dict(task[b])>>

\* C18: when a work function raises, its task becomes failed with the
\* error recorded and completed_at set, and no other task, queue or running
\* set changes in that step and the drain loop stays in place; the
\* completion callback of the failed task then releases its slot and
\* starts the head of the category's queue.
C18_FailureIsolated ==
  [][\A o \in Objs :
       /\ WorkRaises(o) =>
            /\ task'[o].status = "failed"
            /\ task'[o].error = "exc"
            /\ task'[o].result = None
            /\ task'[o].completed_at # NoTime
            /\ \A p \in Objs \ {o} : task'[p] = task[p]
            /\ UNCHANGED <<tasks, task_queues, running_tasks, processor>>
            /\ processor
       /\ (HandleTaskCompletion(o) /\ task[o].error = "exc") =>
            LET tt == task[o].task_type
                q == task_queues[tt]
            IN /\ task[o].task_id \notin running_tasks'[tt]
               /\ completion'[o] = "done"
               /\ task'[o] = task[o]
               /\ processor'
               /\ q # <<>> =>
                    /\ task_queues'[tt] = Tail(q)
                    /\ task'[tasks[Head(q)]].status = "pending"
                    /\ Head(q) \in running_tasks'[tt]]_vars

\* C18 witness: with one slot, the first task failed by an exception and
\* the task queued behind it was started by the completion callback and
\* has completed.
C18_Witness ==
  \E o, n \in Created :
    /\ concurrency_limits[task[o].task_type] = 1
    /\ nTasks = 2
    /\ task[o].status = "failed" /\ task[o].error = "exc"
    /\ completion[o] = "done"
    /\ task[n].task_type = task[o].task_type
    /\ task[n].queue_position # NoPosition
    /\ task[n].status = "completed"

\* the calls of user u whose task has been created and has not ended
ActiveCalls(u) ==
  {c \in Made : call[c].user = u /\ call[c].st \in {"scheduled", "executing"}}

\* C19: with queuing enabled, queue_task for a user without an active task
\* starts the work and returns 0; for a user with an active task it
\* appends the work to the tail of the user's queue and returns the new
\* queue length; and whenever a user's active task ends, the head of the
\* user's queue, if any, is removed and started (stated as the claim has it).
C19_QueueTaskQueueing ==
  [][ENABLE_TASK_QUEUING =>
       /\ \A u \in Users :
            queue_task(u) =>
              LET c == nCalls + 1 IN
              IF ActiveCalls(u) = {}
              THEN call'[c].ret = 0 /\ call'[c].st = "scheduled"
              ELSE /\ call'[c].st = "queued"
                   /\ user_task_queues'[u] = Append(user_task_queues[u], c)
                   /\ call'[c].ret = Len(user_task_queues'[u])
                   /\ call'[c].ret >= 1
       /\ \A c \in Made :
            (c \in ActiveCalls(call[c].user) /\ call'[c].st = "ended"
             /\ user_task_queues[call[c].user] # <<>>)
            => /\ user_task_queues'[call[c].user] = Tail(user_task_queues[call[c].user])
               /\ call'[Head(user_task_queues[call[c].user])].st = "scheduled"]_vars

\* C20: with queuing disabled, a queue_task call made while the user has an
\* active task returns -1 and changes neither the active-task map, nor the
\* queue map, nor the cancel-message map, and the rejected work function is
\* never executed afterwards (stated as the claim has it).
C20_RejectedUnchanged ==
  [][~ENABLE_TASK_QUEUING =>
       /\ \A u \in Users :
            (queue_task(u) /\ ActiveCalls(u) # {})
            => /\ call'[nCalls + 1].ret = -1
               /\ call'[nCalls + 1].st = "rejected"
               /\ UNCHANGED <<user_running_tasks, user_task_queues, queue_keys,
                              user_cancel_messages>>
       /\ \A c \in Made : call[c].st = "rejected" => call'[c].st = "rejected"]_vars

\* C21: cancel_user_task(user) signals and waits exactly when a task is
\* active for the user and otherwise changes nothing; it returns only after
\* the task it waited for is done, and on returning it removes only that
\* task's entry: the entry of a different task of the same user is kept.
C21_CancelUserTask ==
  [][ /\ \A u \in Users :
           cancel_user_task(u) =>
             IF IsTaskRunning(u)
             THEN uwaiters'[user_running_tasks[u]] = uwaiters[user_running_tasks[u]] + 1
             ELSE UNCHANGED uvars
      /\ \A c \in Calls :
           uwaiters'[c] < uwaiters[c] =>
             /\ Done(c)
             /\ user_running_tasks[call[c].user] \notin {c, NoCall} =>
                  user_running_tasks'[call[c].user] = user_running_tasks[call[c].user]
    ]_vars

\* C22: in either queuing mode, when the work of a task starts for a user
\* (the task was started at once or taken from the user's queue), no cancel
\* prompt recorded before that start is still stored for the user.
C22_CancelMessageCleared ==
  [][ \A c \in Calls :
        (call[c].st = "scheduled" /\ call'[c].st = "executing") =>
          ~user_cancel_messages'[call[c].user] ]_vars

C24_UserCancelAll ==
  [][ /\ ucancel_all'.pc # "raised"
      /\ \A c \in Calls :
           (ucancel_all.pc # "none" /\ call[c].st = "queued") => call'[c].st = "queued"
      /\ ucancel_all'.pc = "done" =>
           /\ queue_keys' = {}
           /\ \A u \in Users :
                /\ user_task_queues'[u] = <<>>
                /\ user_running_tasks'[u] = NoCall
                /\ ~user_cancel_messages'[u]
           /\ \A c \in Calls :
                call'[c].st \in {"scheduled", "executing"} => call'[c].must_cancel
    ]_vars

\* C25: R's delivered flag becomes true only in the bot handler of a
\* request whose chat-transport send for R has succeeded, never after a
\* failed or skipped send, and once true it is never reset.
C25_DeliveredAfterSend ==
  [][ /\ (~delivered_to_user /\ delivered_to_user') =>
           \E w \in Received :
             /\ wh[w].pc = "bot_flag"
             /\ wh'[w].pc # "bot_flag"
             /\ "send" \in wh[w].did
             /\ wh[w].status = "completed"
      /\ delivered_to_user => delivered_to_user'
    ]_vars

\* C25 witness: one request's send failed and the flag stayed false, the
\* send of a second request succeeded and the flag is set.
C25_Witness ==
  \E w1, w2 \in Received :
    /\ wh[w1].message_sent /\ "send" \notin wh[w1].did
    /\ ~wh[w2].late
    /\ "send" \in wh[w2].did /\ wh[w2].pc = "returned"
    /\ delivered_to_user

\* C26: on a completed-status webhook the transcript is posted to
\* /process_message only by a handler whose chat-transport send succeeded
\* (stated as the claim has it), and a failed send leaves the delivered
\* flag as it was.
C26_SecondaryAfterSend ==
  [][ /\ agent_posts' > agent_posts =>
           \E w \in Received :
             /\ wh[w].pc = "finish"
             /\ wh'[w].pc = "returned"
             /\ "send" \in wh[w].did
      /\ \A w \in Received :
           (wh[w].pc = "bot_send" /\ wh'[w].pc = "finish") =>
             delivered_to_user' = delivered_to_user
    ]_vars

\* C27: a completed- or error-status handler attempts its send only after
\* it has persisted the status; a failed send leaves the record's status as
\* it is; and a handler that has persisted the status answers with success
\* whether or not its send succeeded.
C27_StatusBeforeSend ==
  [][ \A w \in Received :
        /\ wh[w].pc \in {"post", "bot_send", "post_error", "bot_notice"} =>
             /\ "update" \in wh[w].did
             /\ wh'[w].pc # wh[w].pc => rec_status' = rec_status
        /\ "send" \in wh'[w].did => "update" \in wh'[w].did
        /\ (wh'[w].pc = "returned" /\ "update" \in wh'[w].did) =>
             wh'[w].response = "success"
    ]_vars

\* C27 witness: a completed-status handler persisted the status, its send
\* failed, the record is completed and undelivered and the answer is success.
C27_Witness ==
  \E w \in Received :
    /\ wh[w].status = "completed"
    /\ "update" \in wh[w].did
    /\ "send" \notin wh[w].did
    /\ wh[w].pc = "returned"
    /\ wh[w].response = "success"
    /\ rec_status = "completed"
    /\ ~delivered_to_user

\* C28: R's status only moves from processing to completed or to error,
\* and no step changes it once it is completed or error (stated as the
\* claim has it).
C28_StatusTerminal ==
  [][ rec_status' # rec_status =>
        /\ rec_status = "processing"
        /\ rec_status' \in {"completed", "error"} ]_vars

C30_ErrorIdempotent ==
  [][ \A w \in Received :
        (wh[w].pc = "bot_notice" /\ wh[w].noticed) => notices' = notices ]_vars

\* the Task objects of category tt whose status is queued
Queued(tt) ==
  {o \in Created : task[o].task_type = tt /\ task[o].status = "queued"}

\* the Task objects of category tt whose Task.run has ended by return or
\* exception and whose completion callback has not yet run
Finishing(tt) ==
  {o \in Created : task[o].task_type = tt /\ task[o].aio = "done"
                   /\ completion[o] = "ready"}

C34_ReactiveHandOff ==
  [][ \A o \in Created :
        (completion[o] = "ready" /\ completion'[o] # "ready") =>
          LET tt == task[o].task_type IN
          /\ completion'[o] = "done"
          /\ task[o].task_id \in running_tasks[tt]
          /\ task_queues[tt] # <<>> =>
               /\ task_queues'[tt] = Tail(task_queues[tt])
               /\ Head(task_queues[tt]) \in running_tasks'[tt]
               /\ task'[tasks[Head(task_queues[tt])]].status = "pending"
    ]_vars

C36_Timestamps ==
  \A id \in TaskIds :
    tasks[id] # NoTask =>
      LET o == tasks[id]
          d == get_task_status(id)[2] IN
      /\ task[o].aio \in {"running", "done"} => d.started_at
      /\ task[o].aio \in {"none", "scheduled"} => ~d.started_at
      /\ (task[o].aio = "cancelled" /\ d.status = "pending") => ~d.started_at
      /\ (d.completed_at # NoTime) <=> (d.status \in {"completed", "failed"})

\* C38: add_task never starts the new task at once while the wait queue of
\* its category is non-empty: the new task is queued behind the tasks that
\* are waiting (stated as the claim has it).
C38_NoOvertaking ==
  [][ nTasks' = nTasks + 1 =>
        LET o == nTasks + 1 IN
        task_queues[task'[o].task_type] # <<>> => task'[o].status = "queued"
    ]_vars

\* C37: with queuing enabled, in every state the queue map holds no empty
\* queue: a user's queue that has become empty has been discarded (stated
\* as the claim has it).
C37_NoEmptyQueue ==
  ENABLE_TASK_QUEUING =>
    \A u \in Users : u \in queue_keys => user_task_queues[u] # <<>>

\* C39: with queuing enabled, in every state, if a user's wait queue is
\* non-empty then the active map holds for that user a task that is not
\* done, whose completion starts the head of the queue (stated as the
\* claim has it).
C39_NoStrandedQueue ==
  ENABLE_TASK_QUEUING =>
    \A u \in Users :
      user_task_queues[u] # <<>> =>
        /\ user_running_tasks[u] # NoCall
        /\ call[user_running_tasks[u]].st \in {"scheduled", "executing"}

\* the Task objects of category tt whose work function is executing
WorkExecuting(tt) ==
  {o \in Created : task[o].task_type = tt /\ task[o].aio = "running"}

\* C40: task identifiers are unique while live: in every state, every task
\* that is queued, pending or running is the task the table holds under its
\* id (add_task with an id in use has not overwritten its record), and no
\* more work functions of a category are executing than the category's
\* limit (stated as the claim has it).
C40_UniqueWhileLive ==
  /\ \A o \in Created :
       task[o].status \in {"queued", "pending", "running"} =>
         tasks[task[o].task_id] = o
  /\ \A tt \in TaskType : Cardinality(WorkExecuting(tt)) <= concurrency_limits[tt]

\* category tt is left as it was by the step: its wait queue, its running
\* set, its Task objects and their entries in the table
SameCategory(tt) ==
  /\ task_queues'[tt] = task_queues[tt]
  /\ running_tasks'[tt] = running_tasks[tt]
  /\ \A o \in Objs : task[o].task_type = tt => task'[o] = task[o]
  /\ \A id \in TaskIds :
       (tasks[id] # NoTask /\ task[tasks[id]].task_type = tt) => tasks'[id] = tasks[id]

\* the step is an operation of the category manager on category x:
\* add_task, a step of one of its tasks, its completion, or cancel_task
OperationOn(x) ==
  \/ add_task(x)
  \/ \E o \in Objs :
       /\ task[o].task_type = x
       /\ \/ TaskRunStart(o)
          \/ \E r \in Results : WorkReturns(o, r)
          \/ WorkRaises(o)
          \/ TaskCancelled(o)
          \/ CancelTaskResume(o)
          \/ HandleTaskCompletion(o)
  \/ \E id \in TaskIds :
       tasks[id] # NoTask /\ task[tasks[id]].task_type = x /\ cancel_task(id)

\* C33: scopes are independent.  An operation on one category leaves every
\* other category's wait queue, running set and tasks unchanged; a pass of
\* the drain loop leaves unchanged every category that has nothing to
\* start; add_task to a category below its limit starts the task whatever
\* the load of the other categories; and queue_task for a user with no
\* unfinished active task starts the task (returns 0) and leaves the other
\* users' queues and entries unchanged, whatever the other users have
\* active or queued.
C33_ScopesIndependent ==
  [][ /\ \A x \in TaskType : OperationOn(x) =>
           \A tt \in TaskType \ {x} : SameCategory(tt)
      /\ ProcessQueues =>
           \A tt \in TaskType :
             (task_queues[tt] = <<>>
                \/ Cardinality(running_tasks[tt]) >= concurrency_limits[tt])
             => SameCategory(tt)
      /\ \A x \in TaskType :
           (add_task(x) /\ Cardinality(running_tasks[x]) < concurrency_limits[x])
             => task'[nTasks + 1].status = "pending"
      /\ \A u \in ScopeUsers : queue_task(u) =>
           /\ ~IsTaskRunning(u) => call'[nCalls + 1].ret = 0
           /\ \A v \in ScopeUsers \ {u} :
                /\ user_task_queues'[v] = user_task_queues[v]
                /\ user_running_tasks'[v] = user_running_tasks[v]
    ]_vars

\* one category is at its limit with a task waiting, and a task of another
\* category, added later, has been started
C33_Witness ==
  \E a \in Created, b \in Created :
    /\ a < b
    /\ task[a].task_type # task[b].task_type
    /\ task[a].status = "queued"
    /\ Cardinality(running_tasks[task[a].task_type])
         = concurrency_limits[task[a].task_type]
    /\ task[b].status \in {"pending", "running"}

\* C31: every "processing" placeholder sent for a user request is
\* eventually deleted or edited, on every path (stated as the claim has
\* it; no code path edits a placeholder, so cleaned up means deleted).
C31_PlaceholderCleanedUp ==
  \A c \in Calls :
    (requests[c].placeholder = "shown") ~> (requests[c].placeholder = "deleted")


====
